---- MODULE Spec2Model ----
(***************************************************************************)
(* A model of mononcgif (src/mononcgif/mononc.py): the three windows       *)
(* (_QSelectScreenWindow, _QSelectRegionWindow, _QCreateGifWindow), the    *)
(* coordinator _App and the external tools it runs.                        *)
(*                                                                         *)
(* The program is single-threaded: every Qt event (a click, a key, a       *)
(* pointer event, a signal of the media player) runs its handler to the    *)
(* end before the next one.  Each action below is one such handler with    *)
(* everything it calls.  Handlers are written as operators from a world    *)
(* record w (the program's whole state) to the world after the handler.    *)
(*                                                                         *)
(* Toolkit facts the model relies on:                                      *)
(*  - sys.exit() raised inside a handler ends the process with that status *)
(*    (PyQt prints the pending exception; SystemExit exits);               *)
(*  - any other exception that leaves a handler aborts the process         *)
(*    (PyQt5 >= 5.5 calls qFatal());                                       *)
(*  - QAbstractSlider.setValue bounds the value to [minimum, maximum] and  *)
(*    emits valueChanged only when the value changes and signals are not   *)
(*    blocked; setMaximum(m) is setRange(min(minimum, m), m);              *)
(*  - a window receives input only while it is visible, and pointer-move   *)
(*    and pointer-up only while a button is held (no mouse tracking);      *)
(*  - input that arrives while a handler is running is posted to the       *)
(*    event loop and dispatched after the handler has returned.            *)
(***************************************************************************)
EXTENDS Integers, Sequences, FiniteSets, TLC

VARIABLES
    screens,               \* the desktop's screen geometries, in enumeration order
    proc,                  \* the process: status, exit_code
    stderr,                \* the diagnostics printed so far
    log,                   \* the observable actions so far, in order
    files,                 \* the content of each file the program touches
    select_screen_window,  \* _App._select_screen_window
    capture_window,        \* _App._capture_window
    create_gif_window,     \* _App._create_gif_window
    dispatch,              \* the handlers the last event ran, in order
    event_loop             \* qt_app.exec_(): the clicks posted and not yet
                           \* dispatched, and the handler in progress

vars == <<screens, proc, stderr, log, files, select_screen_window,
          capture_window, create_gif_window, dispatch, event_loop>>

\* ------------------------------------------------------------------ bounds

\* Pointer coordinates inside a window run over 0..MaxCoord (and one more
\* column on a wide screen).
MaxCoord == 1
\* The most screens the desktop has.
MaxScreens == 2
\* The longest recording, in milliseconds.
MaxDuration == 3
\* The most Create clicks in one execution.
MaxRuns == 2

\* ------------------------------------------------------------ Python values

None == <<>>
Some(v) == <<v>>
IsNone(o) == o = <<>>
Val(o) == o[1]

QPoint(px, py) == [x |-> px, y |-> py]
QRect(gx, gy, w, h) == [x |-> gx, y |-> gy, width |-> w, height |-> h]

\* str(int), and int(str) as its inverse on the texts the model can hold:
\* a text that is not the decimal form of an integer raises ValueError.
IntRange == (-(MaxDuration + MaxCoord + 2)..(MaxDuration + MaxCoord + 2)) \cup {10, 128, 320}
str(n) == ToString(n)
IsIntText(t) == \E n \in IntRange : str(n) = t
int(t) == CHOOSE n \in IntRange : str(n) = t

\* ------------------------------------------------------------- environment

\* The screen sizes of the model: a square screen and a wider one.
ScreenSizes == { [width |-> MaxCoord + 1, height |-> MaxCoord + 1],
                 [width |-> MaxCoord + 2, height |-> MaxCoord + 1] }

RECURSIVE SumWidths(_, _)
SumWidths(sizes, n) == IF n = 0 THEN 0 ELSE sizes[n].width + SumWidths(sizes, n - 1)

\* Screens side by side, left to right: screen i starts where screen i-1 ends.
Desktop(sizes) ==
    [i \in 1..Len(sizes) |->
        QRect(SumWidths(sizes, i - 1), 0, sizes[i].width, sizes[i].height)]

Desktops == UNION { { Desktop(s) : s \in [1..n -> ScreenSizes] } : n \in 1..MaxScreens }

\* The exit codes an external tool can return (negative: killed by a signal).
ReturnCodes == {-1, 0, 2}

\* The paths of _App.
TMP_DIR == "/tmp/mononcgif-tmp"
CAPTURE_PATH == "/tmp/mononcgif-tmp/out.ogv"
CAPTURE_MP4_PATH == "/tmp/mononcgif-tmp/out.mp4"
PALETTE_PATH == "/tmp/mononcgif-tmp/palette.png"
GIF_PATH == "/tmp/mononcgif-tmp/out.gif"
OPTI_GIF_PATH == "/tmp/mononcgif-tmp/out-opti.gif"
\* sys.argv[1]
USER_GIF_PATH == "argv[1]"

Paths == {CAPTURE_PATH, CAPTURE_MP4_PATH, PALETTE_PATH, GIF_PATH, OPTI_GIF_PATH,
          USER_GIF_PATH}

\* A file's content is named by the tool that wrote it and the position in
\* the log of the action that did; Absent is no file, Preexisting a file from
\* before this execution.
Absent == [by |-> "nobody", at |-> 0]
Preexisting == [by |-> "user", at |-> 0]

\* ------------------------------------------------------------------- world

\* The program's whole state as one record, for the handlers to thread.
World ==
    [ proc |-> proc, stderr |-> stderr, log |-> log, files |-> files,
      select_screen_window |-> select_screen_window,
      capture_window |-> capture_window,
      create_gif_window |-> create_gif_window,
      dispatch |-> dispatch ]

\* The next state is w (the environment, screens and video, is set apart).
Becomes(w) ==
    /\ proc' = w.proc
    /\ stderr' = w.stderr
    /\ log' = w.log
    /\ files' = w.files
    /\ select_screen_window' = w.select_screen_window
    /\ capture_window' = w.capture_window
    /\ create_gif_window' = w.create_gif_window
    /\ dispatch' = w.dispatch

Alive(w) == w.proc.status = "running"

\* One more observable action.
Logged(w, e) == [w EXCEPT !.log = Append(@, e)]

\* One more call (a handler entered, a forced setValue) made while serving the
\* current event.
Entered(w, name) == [w EXCEPT !.dispatch = Append(@, name)]

\* Mutant of _error: the diagnostic is printed and the process goes on.
_error_only_prints(w, msg) ==
    [w EXCEPT !.stderr = Append(@, [text |-> "Error: {}", msg |-> msg])]

\* _error(msg): print the diagnostic, then sys.exit(1).
_error(w, msg) ==
    [w EXCEPT !.stderr = Append(@, [text |-> "Error: {}", msg |-> msg]),
              !.proc = [status |-> "exited", exit_code |-> 1]]

\* An exception other than SystemExit leaves a handler: the traceback is
\* printed and the process aborts (SIGABRT).
Uncaught(w, exc) ==
    [w EXCEPT !.stderr = Append(@, [text |-> "Traceback", msg |-> exc]),
              !.proc = [status |-> "exited", exit_code |-> 134]]

\* ---------------------------------------------------- _get_screen_geometries

\* desktop.screenGeometry(i) for each i below desktop.screenCount().
_get_screen_geometries(desktop) == [i \in 1..Len(desktop) |-> desktop[i]]

\* -------------------------------------------------------- _QSelectRegionWindow

NoWindow == [exists |-> FALSE]

\* _QSelectRegionWindow.__init__ with _init_ui and _create_overlay: a
\* frameless window moved and resized to the screen and shown, a hidden
\* overlay, no origin and no current position.
_QSelectRegionWindow(screen_geo) ==
    [ exists |-> TRUE, visible |-> TRUE,
      x |-> screen_geo.x, y |-> screen_geo.y,
      width |-> screen_geo.width, height |-> screen_geo.height,
      _overlay |-> [visible |-> FALSE, x |-> 0, y |-> 0, width |-> 0, height |-> 0],
      _init_pos |-> None, _cur_pos |-> None,
      pressed |-> FALSE ]

\* _update_overlay: the overlay spans [_init_pos, _cur_pos].
_update_overlay(cw) ==
    [cw EXCEPT !._overlay.x = Val(cw._init_pos).x,
               !._overlay.y = Val(cw._init_pos).y,
               !._overlay.width = Val(cw._cur_pos).x - Val(cw._init_pos).x,
               !._overlay.height = Val(cw._cur_pos).y - Val(cw._init_pos).y]

\* Mutant of _close: the overlay is closed and dropped, the window is not.
_close_overlay_only(cw) == [cw EXCEPT !._overlay.visible = FALSE]

\* _close: the overlay is closed and dropped, then the window is closed.
_close(cw) == [cw EXCEPT !._overlay.visible = FALSE, !.visible = FALSE]

\* mousePressEvent: origin and current position are the event's position.
mousePressEvent(cw, pos) ==
    LET c1 == [cw EXCEPT !._init_pos = Some(pos), !._cur_pos = Some(pos),
                         !.pressed = TRUE]
        c2 == _update_overlay(c1)
    IN  [c2 EXCEPT !._overlay.visible = TRUE]

\* mouseReleaseEvent: the current position is the event's position.
mouseReleaseEvent(cw, pos) ==
    _update_overlay([cw EXCEPT !._cur_pos = Some(pos), !.pressed = FALSE])

\* Mutant of mouseMoveEvent: only x is compared with the origin's.
mouseMoveEvent_x_only(cw, pos) ==
    IF pos.x < Val(cw._init_pos).x
    THEN cw
    ELSE _update_overlay([cw EXCEPT !._cur_pos = Some(pos)])

\* mouseMoveEvent: a position left of or above the origin is ignored.
mouseMoveEvent(cw, pos) ==
    IF pos.x < Val(cw._init_pos).x \/ pos.y < Val(cw._init_pos).y
    THEN cw
    ELSE _update_overlay([cw EXCEPT !._cur_pos = Some(pos)])

\* The positions (relative to the window, as event.pos() is) the pointer
\* can be at inside the window.
PositionsIn(cw) ==
    { QPoint(px, py) : px \in 0..(cw.width - 1), py \in 0..(cw.height - 1) }

\* -------------------------------------------------------- _QSelectScreenWindow

\* '{}x{}'.format(screen_geo.width(), screen_geo.height())
ButtonText(screen_geo) == str(screen_geo.width) \o "x" \o str(screen_geo.height)

\* Mutant of _init_ui_buttons: every click is bound to the loop variable, that
\* is to the last geometry enumerated.
_init_ui_buttons_late_binding(screen_geos) ==
    [i \in 1..Len(screen_geos) |->
        [text |-> ButtonText(screen_geos[i]),
         screen_geo |-> screen_geos[Len(screen_geos)]]]

\* The button loop of _QSelectScreenWindow._init_ui: one button per geometry,
\* in order, its click bound (functools.partial) to that geometry.
_init_ui_buttons(screen_geos) ==
    [i \in 1..Len(screen_geos) |->
        [text |-> ButtonText(screen_geos[i]), screen_geo |-> screen_geos[i]]]

\* ----------------------------------------------------------- _QCreateGifWindow

\* _create_slider: a QSlider (range 0..99, value 0) with its minimum set to 0.
_create_slider == [minimum |-> 0, maximum |-> 99, value |-> 0, blocked |-> FALSE]

\* QAbstractSliderPrivate::bound
bound(sl, v) ==
    IF v < sl.minimum THEN sl.minimum ELSE IF v > sl.maximum THEN sl.maximum ELSE v

\* The float ms / 1000 (the properties start and end), kept exact.
Seconds(ms) == [num |-> ms, den |-> 1000]

\* '{:.3f}'.format(ms / 1000): sign, whole seconds, three decimals.
Format3f(ms) ==
    LET a == IF ms < 0 THEN -ms ELSE ms
    IN  [negative |-> ms < 0, whole |-> a \div 1000, decimals |-> a % 1000]

\* _update_range_label
_update_range_label(w) ==
    IF ~Alive(w) THEN w
    ELSE [w EXCEPT !.create_gif_window._range_label =
            Some([start |-> Format3f(Val(w.create_gif_window._start)),
                  end |-> Format3f(Val(w.create_gif_window._end))])]

RECURSIVE _slider_start_value_changed(_, _)
RECURSIVE _slider_end_value_changed(_, _)

\* self._slider_start.setValue(v): the bounded value is stored and, when it
\* changed and signals are not blocked, valueChanged runs its slot.
slider_start_setValue(w, v) ==
    LET sl == w.create_gif_window._slider_start
        b == bound(sl, v)
        w1 == [w EXCEPT !.create_gif_window._slider_start.value = b]
    IN  IF ~Alive(w) \/ b = sl.value THEN w
        ELSE IF sl.blocked THEN w1
        ELSE _slider_start_value_changed(w1, b)

\* self._slider_end.setValue(v)
slider_end_setValue(w, v) ==
    LET sl == w.create_gif_window._slider_end
        b == bound(sl, v)
        w1 == [w EXCEPT !.create_gif_window._slider_end.value = b]
    IN  IF ~Alive(w) \/ b = sl.value THEN w
        ELSE IF sl.blocked THEN w1
        ELSE _slider_end_value_changed(w1, b)

\* self._slider_start.setMaximum(m): setRange(min(minimum, m), m), then the
\* value is bounded again (setValue).
slider_start_setMaximum(w, m) ==
    LET sl == w.create_gif_window._slider_start
        lo == IF m < sl.minimum THEN m ELSE sl.minimum
        w1 == [w EXCEPT !.create_gif_window._slider_start.minimum = lo,
                        !.create_gif_window._slider_start.maximum = m]
    IN  IF ~Alive(w) THEN w ELSE slider_start_setValue(w1, sl.value)

\* self._slider_end.setMaximum(m)
slider_end_setMaximum(w, m) ==
    LET sl == w.create_gif_window._slider_end
        lo == IF m < sl.minimum THEN m ELSE sl.minimum
        w1 == [w EXCEPT !.create_gif_window._slider_end.minimum = lo,
                        !.create_gif_window._slider_end.maximum = m]
    IN  IF ~Alive(w) THEN w ELSE slider_end_setValue(w1, sl.value)

\* Mutant of force_slider_end: setValue without blockSignals around it.
force_slider_end_unblocked(w, value) ==
    slider_end_setValue(Entered(w, "_slider_end.setValue"), value)

\* Lines 299-301: the end slider follows, its signals blocked meanwhile.
force_slider_end(w, value) ==
    LET w1 == [Entered(w, "_slider_end.setValue") EXCEPT
                 !.create_gif_window._slider_end.blocked = TRUE]
        w2 == slider_end_setValue(w1, value)
    IN  [w2 EXCEPT !.create_gif_window._slider_end.blocked = FALSE]

\* Lines 311-313: the start slider follows, its signals blocked meanwhile.
force_slider_start(w, value) ==
    LET w1 == [Entered(w, "_slider_start.setValue") EXCEPT
                 !.create_gif_window._slider_start.blocked = TRUE]
        w2 == slider_start_setValue(w1, value)
    IN  [w2 EXCEPT !.create_gif_window._slider_start.blocked = FALSE]

\* _slider_start_value_changed: reading self._end before _duration_changed
\* has set it raises AttributeError.
_slider_start_value_changed(w, value) ==
    LET w1 == Entered(w, "_slider_start_value_changed")
        w2 == [w1 EXCEPT !.create_gif_window.position = value,
                         !.create_gif_window._start = Some(value)]
        w3 == IF value > Val(w2.create_gif_window._end)
              THEN force_slider_end(
                       [w2 EXCEPT !.create_gif_window._end = Some(value)], value)
              ELSE w2
    IN  IF ~Alive(w) THEN w
        ELSE IF IsNone(w2.create_gif_window._end) THEN Uncaught(w2, "AttributeError")
        ELSE _update_range_label(w3)

\* _slider_end_value_changed: reading self._start before _duration_changed
\* has set it raises AttributeError.
_slider_end_value_changed(w, value) ==
    LET w1 == Entered(w, "_slider_end_value_changed")
        w2 == [w1 EXCEPT !.create_gif_window.position = value,
                         !.create_gif_window._end = Some(value)]
        w3 == IF value < Val(w2.create_gif_window._start)
              THEN force_slider_start(
                       [w2 EXCEPT !.create_gif_window._start = Some(value)], value)
              ELSE w2
    IN  IF ~Alive(w) THEN w
        ELSE IF IsNone(w2.create_gif_window._start) THEN Uncaught(w2, "AttributeError")
        ELSE _update_range_label(w3)

\* _QCreateGifWindow.__init__ with _init_multimedia, _init_ui and _show_move:
\* the player paused on the recording with durationChanged connected, two
\* sliders, the three text fields with their defaults, the signals connected,
\* the window shown.  _start and _end are not set here.
_QCreateGifWindow(video_path) ==
    [ exists |-> TRUE, visible |-> TRUE,
      video_path |-> video_path,
      durationChanged_connected |-> TRUE,
      position |-> 0,
      _start |-> None, _end |-> None,
      _slider_start |-> _create_slider, _slider_end |-> _create_slider,
      _range_label |-> None,
      _gif_width_edit |-> "320",
      _gif_frame_rate_edit |-> "10",
      _gif_colors_edit |-> "128",
      _gif_preview_label |-> None,
      _gif_file_size_label |-> None ]

\* Mutant of _duration_changed: without duration -= 1.
_duration_changed_no_decrement(w, duration, video_width) ==
    LET d == duration
        w1 == Entered(Logged(w, [ev |-> "duration_changed", duration |-> duration]),
                      "_duration_changed")
        w2 == [w1 EXCEPT !.create_gif_window._start = Some(0),
                         !.create_gif_window._end = Some(d)]
        w3 == slider_start_setMaximum(w2, d)
        w4 == slider_end_setMaximum(w3, d)
        w5 == slider_end_setValue(w4, Val(w4.create_gif_window._end))
        w6 == _update_range_label(w5)
    IN  IF ~Alive(w6) THEN w6
        ELSE [w6 EXCEPT !.create_gif_window.position = 0,
                        !.create_gif_window._gif_width_edit = str(video_width),
                        !.create_gif_window.durationChanged_connected = FALSE]

\* Mutant of _duration_changed: without the final durationChanged.disconnect().
_duration_changed_stays_connected(w, duration, video_width) ==
    LET d == duration - 1
        w1 == Entered(Logged(w, [ev |-> "duration_changed", duration |-> duration]),
                      "_duration_changed")
        w2 == [w1 EXCEPT !.create_gif_window._start = Some(0),
                         !.create_gif_window._end = Some(d)]
        w3 == slider_start_setMaximum(w2, d)
        w4 == slider_end_setMaximum(w3, d)
        w5 == slider_end_setValue(w4, Val(w4.create_gif_window._end))
        w6 == _update_range_label(w5)
    IN  IF ~Alive(w6) THEN w6
        ELSE [w6 EXCEPT !.create_gif_window.position = 0,
                        !.create_gif_window._gif_width_edit = str(video_width)]

\* _duration_changed(duration), with the width the player's metadata gives.
_duration_changed(w, duration, video_width) ==
    LET d == duration - 1
        w1 == Entered(Logged(w, [ev |-> "duration_changed", duration |-> duration]),
                      "_duration_changed")
        w2 == [w1 EXCEPT !.create_gif_window._start = Some(0),
                         !.create_gif_window._end = Some(d)]
        w3 == slider_start_setMaximum(w2, d)
        w4 == slider_end_setMaximum(w3, d)
        w5 == slider_end_setValue(w4, Val(w4.create_gif_window._end))
        w6 == _update_range_label(w5)
    IN  IF ~Alive(w6) THEN w6
        ELSE [w6 EXCEPT !.create_gif_window.position = 0,
                        !.create_gif_window._gif_width_edit = str(video_width),
                        !.create_gif_window.durationChanged_connected = FALSE]

\* The size in bytes of a file, by its content (each write makes its own).
FileSize(content) == content.at * 1024

\* '{:.3f} MiB'.format(size / 1024 / 1024)
FormatMiB(size) ==
    LET thousandths == (size * 1000 + 524288) \div 1048576
    IN  [whole |-> thousandths \div 1000, decimals |-> thousandths % 1000,
         unit |-> "MiB"]

\* set_gif_preview(path): the movie of the file at path is started and the
\* size label set from os.stat(path).
set_gif_preview(w, path) ==
    IF ~Alive(w) THEN w
    ELSE IF w.files[path] = Absent THEN Uncaught(w, "FileNotFoundError")
    ELSE [Logged(w, [ev |-> "preview", path |-> path]) EXCEPT
            !.create_gif_window._gif_preview_label = Some(w.files[path]),
            !.create_gif_window._gif_file_size_label =
                Some(FormatMiB(FileSize(w.files[path])))]

\* ------------------------------------------------------------------- _App

\* subprocess.run(argv): the tool runs to its end and returns returncode; a
\* tool that succeeds has written its output file.
subprocess_run(w, tool, args, out, returncode) ==
    IF ~Alive(w) THEN w
    ELSE LET w1 == Logged(w, [ev |-> "run", tool |-> tool, args |-> args,
                              out |-> out, returncode |-> returncode])
         IN  IF returncode = 0
             THEN [w1 EXCEPT !.files[out] = [by |-> tool, at |-> Len(w1.log)]]
             ELSE w1

\* Mutant of check_returncode: only a positive code counts as a failure, so a
\* tool killed by a signal (a negative code) passes.
check_returncode_positive_only(w, tool, returncode) ==
    IF Alive(w) /\ returncode > 0
    THEN _error(w, tool \o " returned " \o str(returncode))
    ELSE w

\* if res.returncode != 0: _error('<tool> returned <returncode>')
check_returncode(w, tool, returncode) ==
    IF Alive(w) /\ returncode # 0
    THEN _error(w, tool \o " returned " \o str(returncode))
    ELSE w

\* _capture_video(x, y, width, height)
_capture_video(w, x, y, width, height, returncode) ==
    LET args == [x |-> str(x), y |-> str(y), width |-> str(width),
                 height |-> str(height),
                 flags |-> <<"--no-cursor", "--no-sound", "--overwrite">>]
        w1 == subprocess_run(w, "recordmydesktop", args, CAPTURE_PATH, returncode)
    IN  check_returncode(w1, "recordmydesktop", returncode)

\* Mutant of _region_accepted: the configurator is built before the capture.
_region_accepted_opens_first(w, init_pos, cur_pos, returncode) ==
    LET w1 == Logged(w, [ev |-> "region_accepted", init_pos |-> init_pos,
                         cur_pos |-> cur_pos])
        w2 == [Logged(w1, [ev |-> "configurator_opened"]) EXCEPT
                 !.create_gif_window = _QCreateGifWindow(CAPTURE_PATH)]
    IN  _capture_video(w2, init_pos.x, init_pos.y,
                       cur_pos.x - init_pos.x, cur_pos.y - init_pos.y, returncode)

\* _region_accepted(init_pos, cur_pos)
_region_accepted(w, init_pos, cur_pos, returncode) ==
    LET w1 == Logged(w, [ev |-> "region_accepted", init_pos |-> init_pos,
                         cur_pos |-> cur_pos])
        w2 == _capture_video(w1, init_pos.x, init_pos.y,
                             cur_pos.x - init_pos.x, cur_pos.y - init_pos.y,
                             returncode)
    IN  IF ~Alive(w2) THEN w2
        ELSE [Logged(w2, [ev |-> "configurator_opened"]) EXCEPT
                !.create_gif_window = _QCreateGifWindow(CAPTURE_PATH)]

\* _App._screen_geo_clicked(screen_geo)
App_screen_geo_clicked(w, screen_geo) ==
    IF ~Alive(w) THEN w
    ELSE [Logged(w, [ev |-> "region_selector_created", screen_geo |-> screen_geo])
            EXCEPT !.capture_window = _QSelectRegionWindow(screen_geo)]

\* Mutant of _QSelectScreenWindow: the single-screen branch does not return,
\* so the picker is built and shown as well.
_QSelectScreenWindow_no_return(w, desktop) ==
    LET screen_geos == _get_screen_geometries(desktop)
        w1 == Logged(w, [ev |-> "picker_init"])
        w2 == IF Len(screen_geos) = 1
              THEN App_screen_geo_clicked(
                       Logged(w1, [ev |-> "screen_selected",
                                   screen_geo |-> screen_geos[1]]),
                       screen_geos[1])
              ELSE w1
        w3 == [w2 EXCEPT !.select_screen_window =
                  [exists |-> TRUE, visible |-> TRUE,
                   buttons |-> _init_ui_buttons(_get_screen_geometries(desktop))]]
        w4 == Logged(w3, [ev |-> "picker_shown",
                          buttons |-> Len(w3.select_screen_window.buttons)])
    IN  Logged(w4, [ev |-> "picker_init_returned"])

\* _QSelectScreenWindow.__init__(screen_geo_selected_func), the callback being
\* _App._screen_geo_clicked.
_QSelectScreenWindow(w, desktop) ==
    LET screen_geos == _get_screen_geometries(desktop)
        w1 == Logged(w, [ev |-> "picker_init"])
    IN  IF Len(screen_geos) = 1
        THEN LET w2 == Logged(w1, [ev |-> "screen_selected",
                                   screen_geo |-> screen_geos[1]])
                 w3 == App_screen_geo_clicked(w2, screen_geos[1])
                 w4 == [w3 EXCEPT !.select_screen_window =
                            [exists |-> TRUE, visible |-> FALSE, buttons |-> <<>>]]
             IN  Logged(w4, [ev |-> "picker_init_returned"])
        ELSE LET w2 == [w1 EXCEPT !.select_screen_window =
                            [exists |-> TRUE, visible |-> TRUE,
                             buttons |->
                               _init_ui_buttons(_get_screen_geometries(desktop))]]
                 w3 == Logged(w2, [ev |-> "picker_shown",
                                   buttons |-> Len(w2.select_screen_window.buttons)])
             IN  Logged(w3, [ev |-> "picker_init_returned"])

\* _QSelectScreenWindow._screen_geo_clicked(screen_geo)
_screen_geo_clicked(w, screen_geo) ==
    LET w1 == [Entered(w, "_screen_geo_clicked") EXCEPT
                 !.select_screen_window.visible = FALSE]
        w2 == Logged(w1, [ev |-> "picker_closed"])
        w3 == Logged(w2, [ev |-> "screen_selected", screen_geo |-> screen_geo])
    IN  App_screen_geo_clicked(w3, screen_geo)

\* _QSelectRegionWindow.keyPressEvent
keyPressEvent(w0, key, returncode) ==
    LET cw == w0.capture_window
        w == Entered(w0, "keyPressEvent(" \o key \o ")")
    IN  IF key = "Key_Escape"
        THEN LET w1 == _error(Logged(w, [ev |-> "escape"]), "Cancelled by user")
             IN  IF ~Alive(w1) THEN w1
                 ELSE Logged([w1 EXCEPT !.capture_window = _close(cw)],
                             [ev |-> "region_selector_closed"])
        ELSE IF key \in {"Key_Enter", "Key_Return"}
        THEN IF IsNone(cw._init_pos) \/ IsNone(cw._cur_pos) THEN w
             ELSE LET w1 == Logged([w EXCEPT !.capture_window = _close(cw)],
                                   [ev |-> "region_selector_closed"])
                  IN  _region_accepted(w1, Val(cw._init_pos), Val(cw._cur_pos),
                                       returncode)
        ELSE w

\* ffmpeg -y -i out.ogv out.mp4, and its check.
run_reformat(w, returncode) ==
    LET args == [y |-> TRUE, i |-> <<CAPTURE_PATH>>]
        w1 == subprocess_run(w, "ffmpeg", args, CAPTURE_MP4_PATH, returncode)
    IN  check_returncode(w1, "ffmpeg", returncode)

\* Mutant of run_palettegen: the return code is not checked.
run_palettegen_unchecked(w, start, total_time, fps, width, returncode) ==
    LET args == [y |-> TRUE, ss |-> start, t |-> total_time,
                 i |-> <<CAPTURE_MP4_PATH>>,
                 vf |-> "fps=" \o str(fps) \o ",scale=" \o str(width)
                        \o ":-1:flags=lanczos,palettegen"]
    IN  subprocess_run(w, "ffmpeg", args, PALETTE_PATH, returncode)

\* ffmpeg -y -ss start -t total_time -i out.mp4 -vf ...palettegen palette.png
run_palettegen(w, start, total_time, fps, width, returncode) ==
    LET args == [y |-> TRUE, ss |-> start, t |-> total_time,
                 i |-> <<CAPTURE_MP4_PATH>>,
                 vf |-> "fps=" \o str(fps) \o ",scale=" \o str(width)
                        \o ":-1:flags=lanczos,palettegen"]
        w1 == subprocess_run(w, "ffmpeg", args, PALETTE_PATH, returncode)
    IN  check_returncode(w1, "ffmpeg", returncode)

\* ffmpeg -y -ss start -t total_time -i out.mp4 -i palette.png
\*        -filter_complex ...paletteuse out.gif
run_paletteuse(w, start, total_time, fps, width, returncode) ==
    LET args == [y |-> TRUE, ss |-> start, t |-> total_time,
                 i |-> <<CAPTURE_MP4_PATH, PALETTE_PATH>>,
                 filter_complex |-> "fps=" \o str(fps) \o ",scale=" \o str(width)
                        \o ":-1:flags=lanczos[x];[x][1:v]paletteuse"]
        w1 == subprocess_run(w, "ffmpeg", args, GIF_PATH, returncode)
    IN  check_returncode(w1, "ffmpeg", returncode)

\* Mutant of run_gifsicle: the text of the colors field is passed as it is,
\* without int().
run_gifsicle_unparsed(w, returncode) ==
    LET text == w.create_gif_window._gif_colors_edit
        args == [O3 |-> TRUE, colors |-> text, i |-> <<GIF_PATH>>]
        w1 == subprocess_run(w, "gifsicle", args, OPTI_GIF_PATH, returncode)
    IN  check_returncode(w1, "gifsicle", returncode)

\* gifsicle -O3 --colors gif_colors out.gif -o out-opti.gif: the colors field
\* is parsed while the argument list is built.
run_gifsicle(w, returncode) ==
    LET text == w.create_gif_window._gif_colors_edit
        args == [O3 |-> TRUE, colors |-> str(int(text)), i |-> <<GIF_PATH>>]
        w1 == subprocess_run(w, "gifsicle", args, OPTI_GIF_PATH, returncode)
    IN  IF ~Alive(w) THEN w
        ELSE IF ~IsIntText(text) THEN Uncaught(w, "ValueError")
        ELSE check_returncode(w1, "gifsicle", returncode)

\* shutil.copy(src, dst)
shutil_copy(w, src, dst) ==
    IF ~Alive(w) THEN w
    ELSE IF w.files[src] = Absent THEN Uncaught(w, "FileNotFoundError")
    ELSE [Logged(w, [ev |-> "copy", src |-> src, dst |-> dst]) EXCEPT
            !.files[dst] = w.files[src]]

\* Mutant of _create_gif: the preview is updated before the copy is made.
_create_gif_preview_first(w, returncodes) ==
    LET gw == w.create_gif_window
        start == Seconds(Val(gw._start))
        total_time == Seconds(Val(gw._end) - Val(gw._start))
        fps == int(gw._gif_frame_rate_edit)
        width == int(gw._gif_width_edit)
        w1 == run_reformat(w, returncodes[1])
        w2 == run_palettegen(w1, start, total_time, fps, width, returncodes[2])
        w3 == run_paletteuse(w2, start, total_time, fps, width, returncodes[3])
        w4 == run_gifsicle(w3, returncodes[4])
        w5 == set_gif_preview(w4, OPTI_GIF_PATH)
    IN  IF ~Alive(w) THEN w
        ELSE IF IsNone(gw._end) \/ IsNone(gw._start) THEN Uncaught(w, "AttributeError")
        ELSE IF ~IsIntText(gw._gif_frame_rate_edit) THEN Uncaught(w, "ValueError")
        ELSE IF ~IsIntText(gw._gif_width_edit) THEN Uncaught(w, "ValueError")
        ELSE shutil_copy(w5, OPTI_GIF_PATH, USER_GIF_PATH)

\* _App._create_gif; returncodes[k] is what the k-th tool returns if it runs.
\* end - start is a float difference, kept exact here.
_create_gif(w, returncodes) ==
    LET gw == w.create_gif_window
        start == Seconds(Val(gw._start))
        total_time == Seconds(Val(gw._end) - Val(gw._start))
        fps == int(gw._gif_frame_rate_edit)
        width == int(gw._gif_width_edit)
        w1 == run_reformat(w, returncodes[1])
        w2 == run_palettegen(w1, start, total_time, fps, width, returncodes[2])
        w3 == run_paletteuse(w2, start, total_time, fps, width, returncodes[3])
        w4 == run_gifsicle(w3, returncodes[4])
        w5 == shutil_copy(w4, OPTI_GIF_PATH, USER_GIF_PATH)
    IN  IF ~Alive(w) THEN w
        ELSE IF IsNone(gw._end) \/ IsNone(gw._start) THEN Uncaught(w, "AttributeError")
        ELSE IF ~IsIntText(gw._gif_frame_rate_edit) THEN Uncaught(w, "ValueError")
        ELSE IF ~IsIntText(gw._gif_width_edit) THEN Uncaught(w, "ValueError")
        ELSE set_gif_preview(w5, OPTI_GIF_PATH)

\* _create_gif one statement at a time, for the event loop to interleave with
\* what the user does meanwhile.  Lines 395-397 first:
_create_gif_begin(w) ==
    LET gw == w.create_gif_window
    IN  IF ~Alive(w) THEN w
        ELSE IF IsNone(gw._end) \/ IsNone(gw._start) THEN Uncaught(w, "AttributeError")
        ELSE IF ~IsIntText(gw._gif_frame_rate_edit) THEN Uncaught(w, "ValueError")
        ELSE IF ~IsIntText(gw._gif_width_edit) THEN Uncaught(w, "ValueError")
        ELSE w

\* The frame of _create_gif after lines 395-397: its locals, the position at
\* (1..4 the four tools, 5 the copy, 6 the preview) and what the tools return.
_create_gif_frame(w, returncodes) ==
    LET gw == w.create_gif_window
    IN  [at |-> 1, returncodes |-> returncodes,
         total_time |-> Seconds(Val(gw._end) - Val(gw._start)),
         fps |-> int(gw._gif_frame_rate_edit),
         width |-> int(gw._gif_width_edit)]

\* The statement of _create_gif at position f.at (lines 398-447).
_create_gif_step(w, f) ==
    LET start == Seconds(Val(w.create_gif_window._start))
    IN  CASE f.at = 1 -> run_reformat(w, f.returncodes[1])
          [] f.at = 2 -> run_palettegen(w, start, f.total_time, f.fps, f.width,
                                        f.returncodes[2])
          [] f.at = 3 -> run_paletteuse(w, start, f.total_time, f.fps, f.width,
                                        f.returncodes[3])
          [] f.at = 4 -> run_gifsicle(w, f.returncodes[4])
          [] f.at = 5 -> shutil_copy(w, OPTI_GIF_PATH, USER_GIF_PATH)
          [] f.at = 6 -> set_gif_preview(w, OPTI_GIF_PATH)

\* _create_button_clicked
_create_button_clicked(w, returncodes) ==
    _create_gif(Entered(Logged(w, [ev |-> "create_clicked",
                                   returncodes |-> returncodes]),
                        "_create_button_clicked"),
                returncodes)

\* ------------------------------------------------------------ the log, read

Events(l, name) == { i \in 1..Len(l) : l[i].ev = name }

\* The width of the recording, as the player's metadata reports it: the
\* width the capture tool was given, the whole screen's for an empty region.
VideoWidth ==
    LET c == CHOOSE i \in Events(log, "run") : log[i].tool = "recordmydesktop"
        given == int(log[c].args.width)
    IN  IF given > 0 THEN given ELSE capture_window.width

\* What the four tools of one pipeline run return: the codes of the tools after
\* the first that fails are never produced (the program has exited), so they
\* are left at 0.
PipelineReturnCodes ==
    { rc \in [1..4 -> ReturnCodes] :
        \A k \in 1..4 : rc[k] # 0 => \A j \in (k + 1)..4 : rc[j] = 0 }

\* What the user types into a text field.
TextInputs == {"abc"}

\* The values the user drags a slider to.
SliderInputs(sl) == { v \in sl.minimum..sl.maximum : v <= MaxDuration } \ {sl.value}

\* ------------------------------------------------------------------ actions

\* The world when an event arrives: no handler has run for it yet.
Arriving == [World EXCEPT !.dispatch = <<>>]

\* The world before run(): _App is built, nothing has been shown or run;
\* the destination file may exist already.
Constructed(user_gif) ==
    [ proc |-> [status |-> "created", exit_code |-> 0],
      stderr |-> <<>>,
      log |-> <<>>,
      files |-> [p \in Paths |-> IF p = USER_GIF_PATH THEN user_gif ELSE Absent],
      select_screen_window |-> NoWindow,
      capture_window |-> NoWindow,
      create_gif_window |-> NoWindow,
      dispatch |-> <<>> ]

\* The current state is w.
Is(w) ==
    /\ proc = w.proc
    /\ stderr = w.stderr
    /\ log = w.log
    /\ files = w.files
    /\ select_screen_window = w.select_screen_window
    /\ capture_window = w.capture_window
    /\ create_gif_window = w.create_gif_window
    /\ dispatch = w.dispatch

\* The event loop with nothing posted and no handler in progress.
Idle == [queue |-> <<>>, frame |-> None, posted |-> 0]

Init ==
    /\ screens \in Desktops
    /\ event_loop = Idle
    /\ \E user_gif \in {Absent, Preexisting} : Is(Constructed(user_gif))

\* run(): _App.run() builds the screen picker, then the event loop starts.
Run ==
    /\ proc.status = "created"
    /\ Becomes(_QSelectScreenWindow(
                  [Arriving EXCEPT !.proc.status = "running"], screens))
    /\ UNCHANGED <<screens, event_loop>>

\* A click on the i-th button of the screen picker.
ScreenButtonClicked ==
    /\ proc.status = "running"
    /\ select_screen_window.exists /\ select_screen_window.visible
    /\ \E i \in 1..Len(select_screen_window.buttons) :
          Becomes(_screen_geo_clicked(
                      Logged(Arriving, [ev |-> "button_clicked", index |-> i]),
                      select_screen_window.buttons[i].screen_geo))
    /\ UNCHANGED <<screens, event_loop>>

RegionSelectorOpen ==
    /\ proc.status = "running"
    /\ capture_window.exists /\ capture_window.visible

\* A pointer event's handler with the event's position, as dispatch names it.
PointerEvent(handler, pos) ==
    handler \o "(" \o str(pos.x) \o ", " \o str(pos.y) \o ")"

\* Pointer-down on the region selector.
MousePress ==
    /\ RegionSelectorOpen
    /\ ~capture_window.pressed
    /\ \E pos \in PositionsIn(capture_window) :
          Becomes([Entered(Arriving, PointerEvent("mousePressEvent", pos)) EXCEPT
                     !.capture_window = mousePressEvent(@, pos)])
    /\ UNCHANGED <<screens, event_loop>>

\* Pointer-move with the button held.
MouseMove ==
    /\ RegionSelectorOpen
    /\ capture_window.pressed
    /\ \E pos \in PositionsIn(capture_window) :
          Becomes([Entered(Arriving, PointerEvent("mouseMoveEvent", pos)) EXCEPT
                     !.capture_window = mouseMoveEvent(@, pos)])
    /\ UNCHANGED <<screens, event_loop>>

\* Pointer-up.
MouseRelease ==
    /\ RegionSelectorOpen
    /\ capture_window.pressed
    /\ \E pos \in PositionsIn(capture_window) :
          Becomes([Entered(Arriving, PointerEvent("mouseReleaseEvent", pos)) EXCEPT
                     !.capture_window = mouseReleaseEvent(@, pos)])
    /\ UNCHANGED <<screens, event_loop>>

\* A key pressed on the region selector; returncode is what the capture tool
\* returns if the key starts it.
KeyPress ==
    /\ RegionSelectorOpen
    /\ \E key \in {"Key_Escape", "Key_Enter", "Key_Return", "Key_A"} :
       \E returncode \in ReturnCodes :
          Becomes(keyPressEvent(Arriving, key, returncode))
    /\ UNCHANGED <<screens, event_loop>>

ConfiguratorOpen ==
    /\ proc.status = "running"
    /\ create_gif_window.exists /\ create_gif_window.visible

\* The player reports the recording's duration.
DurationChanged ==
    /\ ConfiguratorOpen
    /\ create_gif_window.durationChanged_connected
    /\ \E duration \in 0..MaxDuration :
          Becomes(_duration_changed(Arriving, duration, VideoWidth))
    /\ UNCHANGED <<screens, event_loop>>

\* The player reports a duration again (the recording plays in a loop) after
\* _duration_changed has disconnected itself: the signal has no slot.
DurationChangedUnconnected ==
    /\ ConfiguratorOpen
    /\ ~create_gif_window.durationChanged_connected
    /\ Becomes(Entered(Arriving, "durationChanged"))
    /\ UNCHANGED <<screens, event_loop>>

\* The user moves the start slider to v.
SliderStartMoved ==
    /\ ConfiguratorOpen
    /\ \E v \in SliderInputs(create_gif_window._slider_start) :
          Becomes(slider_start_setValue(Arriving, v))
    /\ UNCHANGED <<screens, event_loop>>

\* The user moves the end slider to v.
SliderEndMoved ==
    /\ ConfiguratorOpen
    /\ \E v \in SliderInputs(create_gif_window._slider_end) :
          Becomes(slider_end_setValue(Arriving, v))
    /\ UNCHANGED <<screens, event_loop>>

\* The user types into one of the three text fields.
TextEdited ==
    /\ ConfiguratorOpen
    /\ \E t \in TextInputs :
          \/ Becomes([Arriving EXCEPT !.create_gif_window._gif_width_edit = t])
          \/ Becomes([Arriving EXCEPT !.create_gif_window._gif_frame_rate_edit = t])
          \/ Becomes([Arriving EXCEPT !.create_gif_window._gif_colors_edit = t])
    /\ UNCHANGED <<screens, event_loop>>

\* A click on Create.
CreateClicked ==
    /\ ConfiguratorOpen
    /\ Cardinality(Events(log, "create_clicked")) < MaxRuns
    /\ \E returncodes \in PipelineReturnCodes :
          Becomes(_create_button_clicked(Arriving, returncodes))
    /\ UNCHANGED <<screens, event_loop>>

\* The screen picker and the region selector, up to the capture.
NextSelect ==
    \/ Run
    \/ ScreenButtonClicked
    \/ MousePress
    \/ MouseMove
    \/ MouseRelease
    \/ KeyPress

\* The configurator and the export pipeline.
NextGif ==
    \/ DurationChanged
    \/ DurationChangedUnconnected
    \/ SliderStartMoved
    \/ SliderEndMoved
    \/ TextEdited
    \/ CreateClicked

Next == NextSelect \/ NextGif

\* The whole program.
Spec == Init /\ [][Next]_vars

\* The whole program with a user who leaves the sliders and the text fields
\* of the configurator as they are.
NextFlow ==
    \/ NextSelect
    \/ DurationChanged
    \/ CreateClicked

SpecFlow == Init /\ [][NextFlow]_vars

\* The configurator from the moment it opens: one square screen, a drag from
\* (0, 0) to (MaxCoord, MaxCoord) confirmed with Return, the capture tool
\* returning 0.
Captured(user_gif) ==
    LET desktop == Desktop(<<[width |-> MaxCoord + 1, height |-> MaxCoord + 1]>>)
        w0 == [Constructed(user_gif) EXCEPT !.proc.status = "running"]
        w1 == _QSelectScreenWindow(w0, desktop)
        c1 == mousePressEvent(w1.capture_window, QPoint(0, 0))
        c2 == mouseMoveEvent(c1, QPoint(MaxCoord, MaxCoord))
        c3 == mouseReleaseEvent(c2, QPoint(MaxCoord, MaxCoord))
    IN  keyPressEvent([w1 EXCEPT !.capture_window = c3], "Key_Return", 0)

InitGif ==
    /\ screens = Desktop(<<[width |-> MaxCoord + 1, height |-> MaxCoord + 1]>>)
    /\ event_loop = Idle
    /\ \E user_gif \in {Absent, Preexisting} : Is(Captured(user_gif))

SpecGif == InitGif /\ [][NextGif]_vars

\* Mutant of HandlerReturned: the loop dispatches while a handler is running
\* (as if events were processed between the statements of _create_gif).
HandlerReturned_reentrant == TRUE

\* The event loop dispatches the next event only when the handler of the
\* previous one has returned: nothing in a handler processes events, and
\* subprocess.run returns when the tool has exited.
HandlerReturned == IsNone(event_loop.frame)

\* The player reports the duration while no handler is running.
DurationDispatched ==
    /\ HandlerReturned
    /\ DurationChanged

\* The user clicks Create, at any moment the configurator is on screen: the
\* click is posted to the event loop.
CreatePosted ==
    /\ ConfiguratorOpen
    /\ event_loop.posted < MaxRuns
    /\ event_loop' = [event_loop EXCEPT !.queue = Append(@, "Create"),
                                        !.posted = @ + 1]
    /\ UNCHANGED <<screens, proc, stderr, log, files, select_screen_window,
                   capture_window, create_gif_window, dispatch>>

\* The event loop dispatches a posted click: _create_button_clicked calls
\* _create_gif, which reads the range and the two fields it parses first.
CreateDispatched ==
    /\ ConfiguratorOpen
    /\ HandlerReturned
    /\ event_loop.queue # <<>>
    /\ \E returncodes \in PipelineReturnCodes :
          LET w0 == Entered(Logged(Arriving, [ev |-> "create_clicked",
                                             returncodes |-> returncodes]),
                            "_create_button_clicked")
              w1 == _create_gif_begin(w0)
          IN  /\ Becomes(w1)
              /\ event_loop' =
                    [event_loop EXCEPT
                        !.queue = Tail(@),
                        !.frame = IF Alive(w1)
                                  THEN Some(_create_gif_frame(w1, returncodes))
                                  ELSE None]
    /\ UNCHANGED screens

\* The handler in progress executes its next statement, and returns after
\* the last one (or the process has exited).
HandlerStep ==
    /\ proc.status = "running"
    /\ ~IsNone(event_loop.frame)
    /\ LET f == Val(event_loop.frame)
           w1 == _create_gif_step(World, f)
       IN  /\ Becomes(w1)
           /\ event_loop' =
                 [event_loop EXCEPT
                     !.frame = IF Alive(w1) /\ f.at < 6
                               THEN Some([f EXCEPT !.at = @ + 1])
                               ELSE None]
    /\ UNCHANGED screens

\* The configurator with the export pipeline run statement by statement, the
\* user clicking Create whenever they like.
NextLoop ==
    \/ DurationDispatched
    \/ CreatePosted
    \/ CreateDispatched
    \/ HandlerStep

SpecLoop == InitGif /\ [][NextLoop]_vars

\* ------------------------------------------------------------------ claims

Last(l) == l[Len(l)]

\* C1: every region reported to the acceptance callback has
\* end.x >= origin.x and end.y >= origin.y.
C1_ReportedRegionOrdered ==
    \A i \in Events(log, "region_accepted") :
        /\ log[i].cur_pos.x >= log[i].init_pos.x
        /\ log[i].cur_pos.y >= log[i].init_pos.y

\* C4: once Escape has been pressed on the region selector (whatever its
\* state), the diagnostic 'Cancelled by user' is the last thing printed, the
\* process has exited with a non-zero status, and the execution holds no run
\* of the capture tool and no opening of the configurator: the Escape is the
\* last thing that happened.
C4_EscapeTerminates ==
    \A i \in Events(log, "escape") :
        /\ proc.status = "exited" /\ proc.exit_code # 0
        /\ stderr # <<>>
        /\ Last(stderr) = [text |-> "Error: {}", msg |-> "Cancelled by user"]
        /\ i = Len(log)
        /\ \A j \in 1..Len(log) :
              log[j].ev \notin {"run", "region_accepted", "configurator_opened"}
        /\ ~create_gif_window.exists

\* C4's case: Escape pressed while a drag is in progress.
C4_Witness ==
    /\ Events(log, "escape") # {}
    /\ capture_window.pressed
    /\ capture_window._cur_pos # capture_window._init_pos

\* C5: with exactly one screen the picker is never shown, and its constructor
\* hands that screen's geometry to the selection callback, which creates the
\* region selector for it, before the constructor returns; the geometry is
\* yielded exactly once in the whole execution.
C5_SingleScreenPassThrough ==
    (Len(screens) = 1 /\ proc.status # "created") =>
        /\ Len(log) >= 4
        /\ log[1] = [ev |-> "picker_init"]
        /\ log[2] = [ev |-> "screen_selected", screen_geo |-> screens[1]]
        /\ log[3] = [ev |-> "region_selector_created", screen_geo |-> screens[1]]
        /\ log[4] = [ev |-> "picker_init_returned"]
        /\ Events(log, "screen_selected") = {2}
        /\ Events(log, "region_selector_created") = {3}
        /\ Events(log, "picker_shown") = {}
        /\ select_screen_window.exists /\ ~select_screen_window.visible
        /\ capture_window.exists
        /\ capture_window.x = screens[1].x /\ capture_window.y = screens[1].y
        /\ capture_window.width = screens[1].width
        /\ capture_window.height = screens[1].height

\* C5's case: one screen, run() has returned, the region selector is open.
C5_Witness ==
    /\ Len(screens) = 1
    /\ proc.status = "running"
    /\ capture_window.exists /\ capture_window.visible
    /\ Len(log) = 4

\* C6: with N > 1 screens the picker shows N buttons, the i-th labelled
\* "{width}x{height}" of the i-th geometry; a click on button i closes the
\* picker and yields the i-th geometry, for which the region selector is
\* created.
C6_PickerYieldsClicked ==
    (Len(screens) > 1 /\ proc.status # "created") =>
        /\ select_screen_window.exists
        /\ Len(select_screen_window.buttons) = Len(screens)
        /\ \A i \in 1..Len(screens) :
              select_screen_window.buttons[i].text =
                  ToString(screens[i].width) \o "x" \o ToString(screens[i].height)
        /\ Events(log, "picker_shown") = {2}
        /\ log[2].buttons = Len(screens)
        /\ (Events(log, "button_clicked") = {}) => select_screen_window.visible
        /\ \A j \in Events(log, "button_clicked") :
              /\ ~select_screen_window.visible
              /\ Len(log) >= j + 3
              /\ log[j + 1] = [ev |-> "picker_closed"]
              /\ log[j + 2] = [ev |-> "screen_selected",
                               screen_geo |-> screens[log[j].index]]
              /\ log[j + 3] = [ev |-> "region_selector_created",
                               screen_geo |-> screens[log[j].index]]
              /\ Events(log, "screen_selected") = {j + 2}
              /\ capture_window.exists
              /\ capture_window.x = screens[log[j].index].x
              /\ capture_window.width = screens[log[j].index].width

\* C6's case: two screens of the same size (so of the same label), and the
\* first button was clicked.
C6_Witness ==
    /\ Len(screens) = 2
    /\ screens[1].width = screens[2].width
    /\ \E j \in Events(log, "button_clicked") : log[j].index = 1

\* The stage an observable action belongs to: 1 the screen picker, 2 the region
\* selector, 3 the capture, 4 the configurator, 5 the export pipeline.
StageOf(e) ==
    IF e.ev \in {"picker_init", "picker_shown", "button_clicked", "picker_closed",
                 "screen_selected", "picker_init_returned"} THEN 1
    ELSE IF e.ev \in {"region_selector_created", "escape", "region_selector_closed",
                      "region_accepted"} THEN 2
    ELSE IF e.ev = "run" /\ e.tool = "recordmydesktop" THEN 3
    ELSE IF e.ev \in {"configurator_opened", "duration_changed"} THEN 4
    ELSE 5

IsCapture(e) == e.ev = "run" /\ e.tool = "recordmydesktop"
IsStage(e) == e.ev = "run" /\ e.tool # "recordmydesktop"

\* C8: the stages advance linearly.  The region selector is created right
\* after a geometry was yielded, for that geometry; the capture tool runs right
\* after a region was accepted, in the handler of Enter/Return; the
\* configurator opens right after the capture tool returned 0; a pipeline
\* stage runs only after the configurator opened and Create was clicked; the
\* picker, the selector, the capture and the configurator start once each, and
\* nothing of an earlier stage happens after a later stage has started: the
\* stages of the events never decrease along the log (the return of the
\* picker's constructor, inside which a single screen's selector is created,
\* set apart).
C8_StagesAdvanceLinearly ==
    /\ \A i \in Events(log, "region_selector_created") :
          /\ i > 1
          /\ log[i - 1] = [ev |-> "screen_selected", screen_geo |-> log[i].screen_geo]
    /\ \A i \in 1..Len(log) : IsCapture(log[i]) =>
          /\ i > 2
          /\ log[i - 1].ev = "region_accepted"
          /\ log[i - 2].ev = "region_selector_closed"
          /\ \E k \in 1..(i - 1) : log[k].ev = "region_selector_created"
    /\ (Len(log) > 0 /\ (IsCapture(Last(log)) \/ Last(log).ev = "configurator_opened")) =>
          dispatch \in {<<"keyPressEvent(Key_Enter)">>, <<"keyPressEvent(Key_Return)">>}
    /\ \A i \in Events(log, "configurator_opened") :
          /\ i > 1
          /\ IsCapture(log[i - 1])
          /\ log[i - 1].returncode = 0
    /\ create_gif_window.exists <=> Events(log, "configurator_opened") # {}
    /\ \A i \in 1..Len(log) : IsStage(log[i]) =>
          \E k \in Events(log, "create_clicked") : k < i
    /\ \A i \in Events(log, "create_clicked") :
          \E c \in 1..(i - 1) : log[c].ev = "configurator_opened"
    /\ \A name \in {"picker_init", "screen_selected", "region_selector_created",
                     "region_accepted", "configurator_opened"} :
          Cardinality(Events(log, name)) <= 1
    /\ Cardinality({ i \in 1..Len(log) : IsCapture(log[i]) }) <= 1
    /\ Cardinality(Events(log, "picker_init_returned")) <= 1
    /\ \A j \in 2..Len(log) :
          log[j].ev # "picker_init_returned" =>
              LET i == IF log[j - 1].ev = "picker_init_returned" THEN j - 2 ELSE j - 1
              IN  i >= 1 => StageOf(log[i]) <= StageOf(log[j])

\* C8's case: a desktop of two screens, the second picked, a region captured,
\* and two pipeline runs, the last one complete.
C8_Witness ==
    /\ Len(screens) = 2
    /\ \E j \in Events(log, "button_clicked") : log[j].index = 2
    /\ Cardinality(Events(log, "create_clicked")) = 2
    /\ Last(log).ev = "preview"

\* C9: a tool that returned a non-zero code is the last thing in the log
\* (no retry, no later stage, copy or window), the last diagnostic printed is
\* 'Error: <tool> returned <code>' and the process has exited with a non-zero
\* status; the configurator is not open after a failed capture.
C9_ToolFailureIsFatal ==
    \A i \in Events(log, "run") :
        log[i].returncode # 0 =>
            /\ i = Len(log)
            /\ proc.status = "exited" /\ proc.exit_code # 0
            /\ stderr # <<>>
            /\ Last(stderr) =
                  [text |-> "Error: {}",
                   msg |-> log[i].tool \o " returned " \o ToString(log[i].returncode)]
            /\ log[i].tool \in {"recordmydesktop", "ffmpeg", "gifsicle"}
            /\ IsCapture(log[i]) => ~create_gif_window.exists

\* C9's case: the optimizer was killed by a signal in the second run.
C9_Witness ==
    /\ Len(log) > 0
    /\ Last(log).ev = "run" /\ Last(log).tool = "gifsicle"
    /\ Last(log).returncode = -1
    /\ Cardinality(Events(log, "create_clicked")) = 2

Calls(d) == { d[i] : i \in 1..Len(d) }

\* The duration has been loaded: _duration_changed ran and disconnected itself.
Loaded ==
    create_gif_window.exists /\ ~create_gif_window.durationChanged_connected

\* A step in which the user moved the start (the end) control.
StartMovedStep == dispatch' # <<>> /\ dispatch'[1] = "_slider_start_value_changed"
EndMovedStep == dispatch' # <<>> /\ dispatch'[1] = "_slider_end_value_changed"

\* C2: after the duration has been loaded, every move of the start control to
\* v leaves start = v <= end, the end control at v when v was past it (a forced
\* clamp) and untouched otherwise, and does not run the end control's change
\* handler; and symmetrically for the end control.  The trim range is what the
\* controls show.
C2_SlidersClampEachOther ==
    [][ /\ (Loaded /\ StartMovedStep) =>
            LET v == create_gif_window'._slider_start.value
            IN  /\ proc'.status = "running"
                /\ create_gif_window'._start = Some(v)
                /\ create_gif_window'._end = Some(create_gif_window'._slider_end.value)
                /\ v <= create_gif_window'._slider_end.value
                /\ IF v > create_gif_window._slider_end.value
                   THEN /\ create_gif_window'._slider_end.value = v
                        /\ "_slider_end.setValue" \in Calls(dispatch')
                   ELSE /\ create_gif_window'._slider_end = create_gif_window._slider_end
                        /\ create_gif_window'._end = create_gif_window._end
                /\ "_slider_end_value_changed" \notin Calls(dispatch')
                /\ ~create_gif_window'._slider_end.blocked
        /\ (Loaded /\ EndMovedStep) =>
            LET v == create_gif_window'._slider_end.value
            IN  /\ proc'.status = "running"
                /\ create_gif_window'._end = Some(v)
                /\ create_gif_window'._start = Some(create_gif_window'._slider_start.value)
                /\ create_gif_window'._slider_start.value <= v
                /\ IF v < create_gif_window._slider_start.value
                   THEN /\ create_gif_window'._slider_start.value = v
                        /\ "_slider_start.setValue" \in Calls(dispatch')
                   ELSE /\ create_gif_window'._slider_start = create_gif_window._slider_start
                        /\ create_gif_window'._start = create_gif_window._start
                /\ "_slider_start_value_changed" \notin Calls(dispatch')
                /\ ~create_gif_window'._slider_start.blocked
      ]_vars

\* C2's case: the start control was moved past the end control, which followed.
C2_Witness ==
    /\ Loaded
    /\ dispatch = <<"_slider_start_value_changed", "_slider_end.setValue">>
    /\ create_gif_window._slider_start.value > 0
    /\ create_gif_window._slider_end.value = create_gif_window._slider_start.value

\* The stage that writes a tool's output file.
StageNumber(e) ==
    IF e.out = CAPTURE_MP4_PATH THEN 1
    ELSE IF e.out = PALETTE_PATH THEN 2
    ELSE IF e.out = GIF_PATH THEN 3
    ELSE 4

\* C3: a step in which a pipeline stage returns a non-zero code ends with that
\* stage: the stages of the run up to it ran in order, nothing was copied and
\* the preview was not updated in the step, the destination file and the
\* preview are what they were before, and the process has exited, after which
\* nothing happens any more.
C3_StopOnFirstFailure ==
    [][ /\ proc.status # "exited"
        /\ \A i \in (Len(log) + 1)..Len(log') :
              (IsStage(log'[i]) /\ log'[i].returncode # 0) =>
                  /\ i = Len(log')
                  /\ \A j \in (Len(log) + 1)..i :
                        /\ log'[j].ev \notin {"copy", "preview"}
                        /\ IsStage(log'[j]) =>
                              StageNumber(log'[j]) = StageNumber(log'[i]) - (i - j)
                  /\ files'[USER_GIF_PATH] = files[USER_GIF_PATH]
                  /\ create_gif_window'._gif_preview_label =
                        create_gif_window._gif_preview_label
                  /\ create_gif_window'._gif_file_size_label =
                        create_gif_window._gif_file_size_label
                  /\ proc'.status = "exited"
      ]_vars

\* C3's case: palette generation failed in a run that followed a complete one,
\* so there is a destination file to leave alone.
C3_Witness ==
    /\ Len(log) > 0
    /\ IsStage(Last(log)) /\ Last(log).returncode # 0
    /\ StageNumber(Last(log)) = 2
    /\ files[USER_GIF_PATH].by = "gifsicle"
    /\ create_gif_window._gif_preview_label = Some(files[USER_GIF_PATH])

\* The log from position a to position b.
Segment(l, a, b) == [k \in 1..(b - a + 1) |-> l[a + k - 1]]

\* The end of the run that the Create click at position j started.
RunEnd(j) ==
    LET later == { k \in Events(log, "create_clicked") : k > j }
    IN  IF later = {} THEN Len(log)
        ELSE (CHOOSE k \in later : \A m \in later : k <= m) - 1

\* The run did not end in an uncaught exception (a field that does not parse,
\* a range not yet loaded).
RanThrough(j) == ~(RunEnd(j) = Len(log) /\ proc.status = "exited" /\ proc.exit_code = 134)

\* C7: a pipeline run whose four tools all return 0 is exactly: reformat,
\* palette generation, paletted encode, optimizer, one copy of the optimizer's
\* output to the destination path, one preview update, in this order; after the
\* last such run the destination holds what that run's optimizer wrote and the
\* preview shows it.
C7_SuccessfulRunOrder ==
    \A j \in Events(log, "create_clicked") :
        (log[j].returncodes = [k \in 1..4 |-> 0] /\ RanThrough(j)) =>
            LET seg == Segment(log, j + 1, RunEnd(j))
            IN  /\ Len(seg) = 6
                /\ \A k \in 1..4 :
                      /\ seg[k].ev = "run"
                      /\ seg[k].returncode = 0
                      /\ StageNumber(seg[k]) = k
                      /\ seg[k].tool = IF k = 4 THEN "gifsicle" ELSE "ffmpeg"
                /\ seg[4].out = OPTI_GIF_PATH
                /\ seg[5] = [ev |-> "copy", src |-> OPTI_GIF_PATH, dst |-> USER_GIF_PATH]
                /\ seg[6] = [ev |-> "preview", path |-> OPTI_GIF_PATH]
                /\ RunEnd(j) = Len(log) =>
                      /\ files[USER_GIF_PATH] = [by |-> "gifsicle", at |-> j + 4]
                      /\ files[OPTI_GIF_PATH] = files[USER_GIF_PATH]
                      /\ create_gif_window._gif_preview_label =
                            Some(files[OPTI_GIF_PATH])

\* C7's case: two complete runs.
C7_Witness ==
    /\ Cardinality(Events(log, "create_clicked")) = 2
    /\ \A j \in Events(log, "create_clicked") : log[j].returncodes = [k \in 1..4 |-> 0]
    /\ Last(log).ev = "preview"
    /\ proc.status = "running"

\* The state right after the player reported the recording's duration.
JustLoaded ==
    /\ Len(log) > 0
    /\ Last(log).ev = "duration_changed"
    /\ dispatch # <<>>
    /\ dispatch[1] = "_duration_changed"

\* C10 as stated: when duration D is loaded, start = 0 and end = D, both
\* controls have maximum D and the end control is at D.
C10_RangeIsWholeDuration ==
    JustLoaded =>
        LET D == Last(log).duration
        IN  /\ create_gif_window._start = Some(0)
            /\ create_gif_window._end = Some(D)
            /\ create_gif_window._slider_start.maximum = D
            /\ create_gif_window._slider_end.maximum = D
            /\ create_gif_window._slider_end.value = D

\* C10 amended: when a duration D is loaded, end = D - 1, both controls have
\* maximum D - 1 and the end control is at D - 1; start = 0 and the start
\* control is at 0 of a range from 0, except that for D = 0 the controls'
\* range collapses to -1..-1 and start, with its control, is -1.
C10_RangeEndsBeforeDuration ==
    JustLoaded =>
        LET D == Last(log).duration
            lowest == IF D = 0 THEN -1 ELSE 0
        IN  /\ proc.status = "running"
            /\ create_gif_window._start = Some(lowest)
            /\ create_gif_window._end = Some(D - 1)
            /\ create_gif_window._slider_start.minimum = lowest
            /\ create_gif_window._slider_start.maximum = D - 1
            /\ create_gif_window._slider_start.value = lowest
            /\ create_gif_window._slider_end.minimum = lowest
            /\ create_gif_window._slider_end.maximum = D - 1
            /\ create_gif_window._slider_end.value = D - 1

\* C10's case: the longest duration of the model has just been loaded.
C10_Witness ==
    /\ JustLoaded
    /\ Last(log).duration = MaxDuration
    /\ create_gif_window._end = Some(MaxDuration - 1)
    /\ dispatch = <<"_duration_changed", "_slider_end_value_changed">>

\* A step in which Create was clicked.
CreateStep == dispatch' # <<>> /\ dispatch'[1] = "_create_button_clicked"

\* The observable actions of the step, in order.
NewEvents == Segment(log', Len(log) + 1, Len(log'))

\* The pipeline stages run in the step, by number, in order.
NewStages ==
    LET at == { i \in 1..Len(NewEvents) : IsStage(NewEvents[i]) }
    IN  [k \in 1..Cardinality(at) |->
            StageNumber(NewEvents[CHOOSE i \in at :
                                     Cardinality({ j \in at : j <= i }) = k])]

WidthMalformed == ~IsIntText(create_gif_window._gif_width_edit)
FrameRateMalformed == ~IsIntText(create_gif_window._gif_frame_rate_edit)
ColorsMalformed == ~IsIntText(create_gif_window._gif_colors_edit)

\* C11 as stated: a Create click with non-integer text in any of the three
\* fields is fatal before the first pipeline stage is invoked: no stage runs
\* in the step.
C11_MalformedStopsBeforeFirstStage ==
    [][ (CreateStep /\ (WidthMalformed \/ FrameRateMalformed \/ ColorsMalformed)) =>
            /\ proc'.status = "exited" /\ proc'.exit_code # 0
            /\ NewStages = <<>>
      ]_vars

\* C11 amended: a Create click with non-integer text in any of the three
\* fields is fatal, and the optimizer is not invoked, nothing is copied and
\* the preview is not updated.  With the width or the frame rate malformed no
\* stage is invoked at all.  With only the colors malformed the failure
\* surfaces when the optimizer's arguments are built: the reformat, the
\* palette generation and the paletted encode are invoked before it (all three
\* when the range is loaded and each returns 0), and the process then dies of
\* the ValueError.
C11_MalformedIsFatalColorsLate ==
    [][ (CreateStep /\ (WidthMalformed \/ FrameRateMalformed \/ ColorsMalformed)) =>
            /\ proc'.status = "exited" /\ proc'.exit_code # 0
            /\ \A i \in 1..Len(NewEvents) :
                  /\ NewEvents[i].ev \notin {"copy", "preview"}
                  /\ IsStage(NewEvents[i]) => StageNumber(NewEvents[i]) # 4
            /\ files'[USER_GIF_PATH] = files[USER_GIF_PATH]
            /\ files'[OPTI_GIF_PATH] = files[OPTI_GIF_PATH]
            /\ create_gif_window'._gif_preview_label =
                  create_gif_window._gif_preview_label
            /\ (WidthMalformed \/ FrameRateMalformed) =>
                  /\ NewStages = <<>>
                  /\ proc'.exit_code = 134
            /\ (~WidthMalformed /\ ~FrameRateMalformed) =>
                  /\ NewStages \in {<<>>, <<1>>, <<1, 2>>, <<1, 2, 3>>}
                  /\ (Loaded /\ \A k \in 1..3 : NewEvents[1].returncodes[k] = 0) =>
                        /\ NewStages = <<1, 2, 3>>
                        /\ Last(stderr') = [text |-> "Traceback", msg |-> "ValueError"]
                        /\ proc'.exit_code = 134
      ]_vars

\* C11's case: Create clicked with only the colors malformed; three stages
\* ran and the process died of the ValueError.
C11_Witness ==
    /\ Len(log) > 4
    /\ log[Len(log) - 3].ev = "create_clicked"
    /\ \A k \in 1..3 : IsStage(log[Len(log) - 3 + k])
    /\ create_gif_window._gif_colors_edit = "abc"
    /\ IsIntText(create_gif_window._gif_width_edit)
    /\ IsIntText(create_gif_window._gif_frame_rate_edit)
    /\ proc = [status |-> "exited", exit_code |-> 134]
    /\ stderr = <<[text |-> "Traceback", msg |-> "ValueError"]>>

\* C12: the capture tool is given the absolute screen coordinates of the
\* pointer-down point (its position in the region selector's window plus the
\* window's position on the desktop) as x and y, and end minus origin on each
\* axis as width and height.
C12_CaptureGetsAbsoluteRectangle ==
    \A i \in 1..Len(log) : IsCapture(log[i]) =>
        LET origin == Val(capture_window._init_pos)
            end == Val(capture_window._cur_pos)
        IN  /\ log[i].args.x = str(capture_window.x + origin.x)
            /\ log[i].args.y = str(capture_window.y + origin.y)
            /\ log[i].args.width = str(end.x - origin.x)
            /\ log[i].args.height = str(end.y - origin.y)

\* A step in which Enter or Return was pressed on the region selector.
EnterStep ==
    /\ dispatch' # <<>>
    /\ dispatch'[1] \in {"keyPressEvent(Key_Enter)", "keyPressEvent(Key_Return)"}

\* C13: Enter/Return pressed on the region selector while there is no origin
\* or no current position changes nothing: the window stays as it is and open,
\* nothing is reported, no tool runs.  With an origin and a current position,
\* it closes the window, then calls the acceptance callback with exactly that
\* origin and position, which then runs the capture tool; the callback is
\* called once in the whole execution.
C13_EnterNeedsARectangle ==
    [][ EnterStep =>
          IF IsNone(capture_window._init_pos) \/ IsNone(capture_window._cur_pos)
          THEN /\ UNCHANGED <<capture_window, log, proc, stderr, files,
                              create_gif_window, select_screen_window>>
               /\ capture_window.visible
               /\ dispatch' = <<dispatch'[1]>>
          ELSE /\ ~capture_window'.visible
               /\ ~capture_window'._overlay.visible
               /\ capture_window'._init_pos = capture_window._init_pos
               /\ capture_window'._cur_pos = capture_window._cur_pos
               /\ Len(NewEvents) >= 3
               /\ NewEvents[1] = [ev |-> "region_selector_closed"]
               /\ NewEvents[2] = [ev |-> "region_accepted",
                                   init_pos |-> Val(capture_window._init_pos),
                                   cur_pos |-> Val(capture_window._cur_pos)]
               /\ IsCapture(NewEvents[3])
               /\ Events(log', "region_accepted") = {Len(log) + 2}
               /\ Events(log', "region_selector_closed") = {Len(log) + 1}
      ]_vars

\* C13's case: Enter/Return was pressed before any pointer-down, and the
\* selector is still open with nothing reported.
C13_Witness ==
    /\ dispatch \in {<<"keyPressEvent(Key_Enter)">>, <<"keyPressEvent(Key_Return)">>}
    /\ capture_window.exists /\ capture_window.visible
    /\ IsNone(capture_window._init_pos)
    /\ Events(log, "region_accepted") = {}

\* The region selector is open and a drag is in progress.
Dragging == RegionSelectorOpen /\ capture_window.pressed

\* C14: during a drag, a pointer-move to a position left of or above the
\* origin changes nothing of the selector (origin, current position, overlay);
\* a pointer-move to a position with both coordinates >= the origin's keeps
\* the origin and makes the current position that position and the overlay the
\* rectangle from the origin to it.  Nothing else happens in either case.
C14_MoveGrowsOrIsIgnored ==
    [][ Dragging =>
          \A pos \in PositionsIn(capture_window) :
              dispatch' = <<PointerEvent("mouseMoveEvent", pos)>> =>
                  LET origin == Val(capture_window._init_pos)
                  IN  /\ UNCHANGED <<log, proc, stderr, files>>
                      /\ IF pos.x < origin.x \/ pos.y < origin.y
                         THEN capture_window' = capture_window
                         ELSE /\ capture_window'._init_pos = Some(origin)
                              /\ capture_window'._cur_pos = Some(pos)
                              /\ capture_window'._overlay =
                                    [visible |-> TRUE, x |-> origin.x, y |-> origin.y,
                                     width |-> pos.x - origin.x,
                                     height |-> pos.y - origin.y]
                              /\ capture_window'.visible /\ capture_window'.pressed
      ]_vars

\* C14's case: the rectangle was grown by a move, and the last move, to a
\* position above the origin but not left of it, was ignored.
C14_Witness ==
    /\ Dragging
    /\ Val(capture_window._cur_pos) # Val(capture_window._init_pos)
    /\ \E pos \in PositionsIn(capture_window) :
          /\ dispatch = <<PointerEvent("mouseMoveEvent", pos)>>
          /\ pos.y < Val(capture_window._init_pos).y
          /\ pos.x >= Val(capture_window._init_pos).x
          /\ Val(capture_window._cur_pos) # pos

\* C15: a pointer-up, wherever it happens, leaves the rectangle as it was just
\* before it (origin, current position and overlay), and the window open.
C15_ReleaseFreezesRectangle ==
    [][ Dragging =>
          \A pos \in PositionsIn(capture_window) :
              dispatch' = <<PointerEvent("mouseReleaseEvent", pos)>> =>
                  /\ capture_window'._init_pos = capture_window._init_pos
                  /\ capture_window'._cur_pos = capture_window._cur_pos
                  /\ capture_window'._overlay = capture_window._overlay
                  /\ capture_window'.visible
      ]_vars

\* The position in the log of the last Create click dispatched (0: none).
LastRun ==
    LET runs == Events(log, "create_clicked")
    IN  IF runs = {} THEN 0 ELSE CHOOSE j \in runs : \A k \in runs : k <= j

\* A pipeline run is in progress: the process is running and the last run has
\* not reached its last action, the preview update.
RunInProgress ==
    /\ proc.status = "running"
    /\ LastRun # 0
    /\ Last(log).ev # "preview"

\* C16: every Create click is either waiting in the event loop or has started
\* one pipeline run, never more; a run starts only when no run is in progress
\* (the previous run, if any, has done its last action, the preview update),
\* taking one click from the event loop; while a run is in progress, a click
\* that arrives waits and no run starts.
C16_OneRunAtATime ==
    [][ /\ Cardinality(Events(log', "create_clicked")) + Len(event_loop'.queue)
              = event_loop'.posted
        /\ Events(log', "create_clicked") # Events(log, "create_clicked") =>
              /\ ~RunInProgress
              /\ Events(log', "create_clicked") =
                    Events(log, "create_clicked") \cup {Len(log) + 1}
              /\ LastRun # 0 =>
                    /\ Len(log) = LastRun + 6
                    /\ \A k \in 1..4 : IsStage(log[LastRun + k])
                                         /\ StageNumber(log[LastRun + k]) = k
                    /\ log[LastRun + 5].ev = "copy"
                    /\ log[LastRun + 6].ev = "preview"
              /\ event_loop.queue # <<>>
              /\ event_loop'.queue = Tail(event_loop.queue)
        /\ RunInProgress =>
              /\ Events(log', "create_clicked") = Events(log, "create_clicked")
              /\ Len(event_loop'.queue) >= Len(event_loop.queue)
      ]_vars

\* C16's case: a second click arrived while the first run was between two of
\* its tools, and is waiting.
C16_Witness ==
    /\ RunInProgress
    /\ Cardinality(Events(log, "create_clicked")) = 1
    /\ IsStage(Last(log)) /\ StageNumber(Last(log)) = 2
    /\ event_loop.queue = <<"Create">>
    /\ event_loop.posted = 2

\* The duration the player reported, in milliseconds.
LoadedDuration ==
    LET i == CHOOSE i \in Events(log, "duration_changed") : TRUE
    IN  log[i].duration

\* C17: once the duration D has been loaded, 0 <= start <= end <= D in every
\* state of the configurator.
C17_TrimRangeWithinDuration ==
    Loaded =>
        /\ 0 <= Val(create_gif_window._start)
        /\ Val(create_gif_window._start) <= Val(create_gif_window._end)
        /\ Val(create_gif_window._end) <= LoadedDuration

\* C18: whenever the configurator is on screen with the process running, so
\* that a slider can be moved or Create clicked (the three signals are
\* connected from its construction), start and end have values.
C18_RangeSetWhenHandlersCanRun ==
    ConfiguratorOpen =>
        /\ ~IsNone(create_gif_window._start)
        /\ ~IsNone(create_gif_window._end)

\* C19: _duration_changed runs at most once per configurator, and only while
\* the duration has not been loaded; a duration reported later runs no
\* handler and leaves the configurator (the trim range, the sliders with
\* their maxima, the width field and everything else) as it was.
C19_DurationHandlerRunsOnce ==
    [][ /\ Cardinality(Events(log', "duration_changed")) <= 1
        /\ "_duration_changed" \in Calls(dispatch') =>
              \/ ~Loaded /\ ~create_gif_window'.durationChanged_connected
              \/ UNCHANGED vars
        /\ (Loaded /\ dispatch' # <<>> /\ dispatch'[1] = "durationChanged") =>
              /\ dispatch' = <<"durationChanged">>
              /\ create_gif_window' = create_gif_window
              /\ UNCHANGED <<log, proc, stderr, files>>
      ]_vars

\* C19's case: the user has moved the start of the range, and a duration was
\* reported after that.
C19_Witness ==
    /\ Loaded
    /\ dispatch = <<"durationChanged">>
    /\ Val(create_gif_window._start) > 0
    /\ Val(create_gif_window._end) < LoadedDuration - 1

====
